---- MODULE Spec2Model ----
(***************************************************************************)
(* Model of src/public/src/src/App.js: the consumption-control single-page *)
(* application (identity bootstrap, live collection sync, the daily and    *)
(* weekly entry forms, and the two dashboard aggregates).                  *)
(*                                                                         *)
(* Dates are day numbers counted from 1 = Sunday 1 January 2023, so that   *)
(* 366 = Monday 1 January 2024; the empty string of a cleared date input   *)
(* is EmptyDate.  Numeric inputs are the strings the <input> elements      *)
(* hold; NumberOf is JavaScript's Number() on them.                        *)
(***************************************************************************)
EXTENDS Integers, Sequences, FiniteSets, Bags, TLC

VARIABLES
    firebaseConfig,    \* TRUE iff __firebase_config is a non-empty object
    initialAuthToken,  \* TRUE iff a bootstrap token was supplied
    currentUser,       \* the identity provider's session: "none" or how it was obtained
    observer,          \* onAuthStateChanged observer: "unregistered", "idle", "pending"
    signIn,            \* sign-in awaited by the observer callback: "idle", "token", "anon"
    tokenFailed,       \* the custom-token exchange has failed (the catch at line 88 ran)
    losses,            \* number of times the provider dropped the session
    db, user, isAuthReady,                    \* useFirebaseAuth state
    view, womackData, bodymakerData, loading, \* App state
    womackSub, bodymakerSub,                  \* the two onSnapshot listeners are registered
    womackStore, bodymakerStore,              \* the two collections in the store
    womack,            \* WomackControl state (date, line, water, oilTotal, oilPartial, message, isLoading)
    wTimers,           \* number of setTimeout callbacks the mounted WomackControl awaits
    wMsgTimer,         \* position, among them, of the one set with womack.message (0: none)
    wPending,          \* bag of the addDoc calls of WomackControl not yet settled
    bodymaker,         \* BodymakerControl state (week, line, consumptions, message, isLoading)
    bTimers, bMsgTimer, bPending,
    submits            \* number of handleSubmit calls so far, of either control

authVars == <<firebaseConfig, initialAuthToken, currentUser, observer, signIn,
              tokenFailed, losses, db, user, isAuthReady>>
appVars == <<view, womackData, bodymakerData, loading, womackSub, bodymakerSub>>
storeVars == <<womackStore, bodymakerStore>>
womackVars == <<womack, wTimers, wMsgTimer, wPending>>
bodymakerVars == <<bodymaker, bTimers, bMsgTimer, bPending>>
vars == <<authVars, appVars, storeVars, womackVars, bodymakerVars, submits>>

-----------------------------------------------------------------------------
(* Bounds of the model *)

MaxLosses == 1
MaxSubmits == 2
MaxDailyDocs == 8
MaxWeeklyDocs == 3

-----------------------------------------------------------------------------
(* Values *)

EmptyDate == 0
Today == 370
DaysInYear == 365
WindowDays == 7
Lines == {1, 2}

MsgNone == ""
MsgRequired == "Error: Todos los campos son obligatorios."
MsgSaved == "Registro guardado con exito"
MsgSaveError == "Error al guardar. Intentalo de nuevo."
MsgWeekRequired == "Error: Debes seleccionar una semana e introducir al menos un consumo."
MsgWeekSaved == "Registros semanales guardados con exito"

DateInputs == {EmptyDate, Today}
WaterInputs == {"", "7"}
OilTotalInputs == {"", "3"}
OilPartialInputs == {"", "2"}
ValidWaterInputs == {"7"}
ValidOilTotalInputs == {"3"}
ValidOilPartialInputs == {"2"}
ValidConsumptionInputs == {"4"}

\* JavaScript Number() on the strings the inputs can hold
NumberOf(s) ==
    CASE s = "" -> 0
      [] s = "0" -> 0
      [] s = "-2" -> -2
      [] s = "2" -> 2
      [] s = "3" -> 3
      [] s = "4" -> 4
      [] s = "7" -> 7

Min(S) == CHOOSE x \in S : \A y \in S : x <= y

RECURSIVE SortedKeys(_)
\* the members of a set of numbers in ascending order: the order in which
\* Object.entries lists integer keys, and that of sort((a, b) => a - b)
SortedKeys(S) ==
    IF S = {} THEN <<>>
    ELSE LET m == Min(S)
         IN <<m>> \o SortedKeys(S \ {m})

RECURSIVE DetachedFrom(_, _)
DetachedFrom(bag, S) ==
    IF S = {} THEN EmptyBag
    ELSE LET p == CHOOSE x \in S : TRUE
         IN [x \in {[p EXCEPT !.live = FALSE]} |-> bag[p]] (+) DetachedFrom(bag, S \ {p})

\* the pending writes of a control that unmounts: they stay in flight, their
\* continuations only set the state of a component that is gone
Detached(bag) == DetachedFrom(bag, BagToSet(bag))

\* daily documents other clients of the collection write
DailyDates == (5..8) \cup (370..373)
DailyWaters == {1, 2}
DailyDocs ==
    [date : DailyDates, line : Lines, waterConsumption : DailyWaters,
     oilConsumptionTotal : {3}, oilConsumptionPartial : {2}]

DailyDoc(date, line, water) ==
    [date |-> date, line |-> line, waterConsumption |-> water,
     oilConsumptionTotal |-> 3, oilConsumptionPartial |-> 2]

\* 1 to 6 January 2024, in the order the store happens to list them
BaseWeek ==
    <<DailyDoc(368, 1, 10), DailyDoc(366, 2, 20), DailyDoc(371, 1, 30),
      DailyDoc(367, 2, 40), DailyDoc(370, 1, 50), DailyDoc(369, 2, 60)>>

\* weekly documents other clients of the collection write
WeeklyDates == {366, 373}
WeeklyReadings ==
    {<<[machineId |-> 11, consumption |-> 5]>>,
     <<[machineId |-> 12, consumption |-> 3], [machineId |-> 11, consumption |-> 9]>>,
     <<[machineId |-> 21, consumption |-> 4]>>,
     <<[machineId |-> 22, consumption |-> 6], [machineId |-> 12, consumption |-> 7]>>}
WeeklyDocs == [weekStartDate : WeeklyDates, line : Lines, readings : WeeklyReadings]

-----------------------------------------------------------------------------
(* useFirebaseAuth *)

\* the mount effect: without configuration nothing is initialised
AuthMountEffect ==
    /\ observer = "unregistered"
    /\ firebaseConfig
    /\ db' = TRUE
    /\ observer' = "pending"
    /\ UNCHANGED <<firebaseConfig, initialAuthToken, currentUser, signIn, tokenFailed,
                   losses, user, isAuthReady>>
    /\ UNCHANGED <<appVars, storeVars, womackVars, bodymakerVars, submits>>

\* the onAuthStateChanged callback up to its first await (or to its end)
AuthStateChanged ==
    /\ observer = "pending"
    /\ observer' = "idle"
    /\ IF currentUser # "none"
         THEN /\ user' = currentUser
              /\ isAuthReady' = TRUE
              /\ signIn' = signIn
         ELSE /\ signIn' = IF initialAuthToken THEN "token" ELSE "anon"
              /\ UNCHANGED <<user, isAuthReady>>
    /\ UNCHANGED <<firebaseConfig, initialAuthToken, currentUser, tokenFailed, losses, db>>
    /\ UNCHANGED <<appVars, storeVars, womackVars, bodymakerVars, submits>>

\* signInWithCustomToken resolves: the callback continues to setIsAuthReady(true)
SignInTokenOk ==
    /\ signIn = "token"
    /\ currentUser' = "token"
    /\ observer' = "pending"
    /\ signIn' = "idle"
    /\ isAuthReady' = TRUE
    /\ UNCHANGED <<firebaseConfig, initialAuthToken, tokenFailed, losses, db, user>>
    /\ UNCHANGED <<appVars, storeVars, womackVars, bodymakerVars, submits>>

\* signInWithCustomToken rejects: the catch block falls back to signInAnonymously
SignInTokenFail ==
    /\ signIn = "token"
    /\ tokenFailed' = TRUE
    /\ signIn' = "anon"
    /\ UNCHANGED <<firebaseConfig, initialAuthToken, currentUser, observer, losses,
                   db, user, isAuthReady>>
    /\ UNCHANGED <<appVars, storeVars, womackVars, bodymakerVars, submits>>

\* signInAnonymously resolves: the callback continues to setIsAuthReady(true)
SignInAnonOk ==
    /\ signIn = "anon"
    /\ currentUser' = "anon"
    /\ observer' = "pending"
    /\ signIn' = "idle"
    /\ isAuthReady' = TRUE
    /\ UNCHANGED <<firebaseConfig, initialAuthToken, tokenFailed, losses, db, user>>
    /\ UNCHANGED <<appVars, storeVars, womackVars, bodymakerVars, submits>>

\* signInAnonymously rejects: the async callback throws before setIsAuthReady
SignInAnonFail ==
    /\ signIn = "anon"
    /\ signIn' = "idle"
    /\ UNCHANGED <<firebaseConfig, initialAuthToken, currentUser, observer, tokenFailed,
                   losses, db, user, isAuthReady>>
    /\ UNCHANGED <<appVars, storeVars, womackVars, bodymakerVars, submits>>

\* the identity provider drops the session and notifies the observer with null
SessionLost ==
    /\ observer # "unregistered"
    /\ currentUser # "none"
    /\ losses < MaxLosses
    /\ losses' = losses + 1
    /\ currentUser' = "none"
    /\ observer' = "pending"
    /\ UNCHANGED <<firebaseConfig, initialAuthToken, signIn, tokenFailed, db, user, isAuthReady>>
    /\ UNCHANGED <<appVars, storeVars, womackVars, bodymakerVars, submits>>

-----------------------------------------------------------------------------
(* App: subscriptions, snapshots, navigation *)

\* the guard with the readiness test forgotten
CanSubscribeOnDbAlone == db

\* the guard of both subscription effects: if (!isAuthReady || !db) return
CanSubscribe == isAuthReady /\ db

\* both effects of the commit in which isAuthReady and db are first truthy
SubscriptionEffects ==
    /\ CanSubscribe
    /\ ~womackSub /\ ~bodymakerSub
    /\ womackSub' = TRUE
    /\ bodymakerSub' = TRUE
    /\ UNCHANGED <<view, womackData, bodymakerData, loading>>
    /\ UNCHANGED <<authVars, storeVars, womackVars, bodymakerVars, submits>>

\* the womack listener delivers the collection: setWomackData, setLoading(false)
OnWomackSnapshot ==
    /\ womackSub
    /\ womackData' = womackStore
    /\ loading' = FALSE
    /\ UNCHANGED <<view, bodymakerData, womackSub, bodymakerSub>>
    /\ UNCHANGED <<authVars, storeVars, womackVars, bodymakerVars, submits>>

\* the womack listener's error callback, were it to empty the snapshot
OnWomackErrorClearsSnapshot ==
    /\ womackSub
    /\ womackData' = <<>>
    /\ loading' = FALSE
    /\ UNCHANGED <<view, bodymakerData, womackSub, bodymakerSub>>
    /\ UNCHANGED <<authVars, storeVars, womackVars, bodymakerVars, submits>>

\* the womack listener reports an error: setLoading(false)
OnWomackError ==
    /\ womackSub
    /\ loading' = FALSE
    /\ UNCHANGED <<view, womackData, bodymakerData, womackSub, bodymakerSub>>
    /\ UNCHANGED <<authVars, storeVars, womackVars, bodymakerVars, submits>>

\* the bodymaker listener delivers the collection: setBodymakerData
OnBodymakerSnapshot ==
    /\ bodymakerSub
    /\ bodymakerData' = bodymakerStore
    /\ UNCHANGED <<view, womackData, loading, womackSub, bodymakerSub>>
    /\ UNCHANGED <<authVars, storeVars, womackVars, bodymakerVars, submits>>

\* the bodymaker listener reports an error: console.error alone
OnBodymakerError ==
    /\ bodymakerSub
    /\ UNCHANGED <<appVars, authVars, storeVars, womackVars, bodymakerVars, submits>>

\* another client of the public collection appends a daily document
StoreAddsDaily(doc) ==
    /\ Len(womackStore) < MaxDailyDocs
    /\ womackStore' = Append(womackStore, doc)
    /\ UNCHANGED bodymakerStore
    /\ UNCHANGED <<authVars, appVars, womackVars, bodymakerVars, submits>>

\* another client of the public collection appends a weekly document
StoreAddsWeekly(doc) ==
    /\ Len(bodymakerStore) < MaxWeeklyDocs
    /\ bodymakerStore' = Append(bodymakerStore, doc)
    /\ UNCHANGED womackStore
    /\ UNCHANGED <<authVars, appVars, womackVars, bodymakerVars, submits>>

\* renderView shows a view (and so its controls) only past this guard
Rendered == ~(loading \/ ~isAuthReady)


\* onNavigate from the dashboard: the chosen control mounts in its initial state
Navigate(v) ==
    /\ Rendered
    /\ view = "dashboard"
    /\ view' = v
    /\ UNCHANGED <<womackData, bodymakerData, loading, womackSub, bodymakerSub>>
    /\ UNCHANGED <<authVars, storeVars, womackVars, bodymakerVars, submits>>

-----------------------------------------------------------------------------------------------------------------------------------------------------
(* Dashboard *)

\* new Date(d.date).toLocaleDateString('es-ES', { day: 'numeric', month: 'short' }):
\* the day and the month without the year.  Day numbers up to the end of
\* February 2024 are used, for which this is the day of the (365-day) year.
DateKey(date) == ((date - 1) % DaysInYear) + 1

\* one step of the stable sort: d goes after every element not later than it
InsertByDate(sorted, d) ==
    LET n == Cardinality({i \in 1..Len(sorted) : sorted[i].date <= d.date})
    IN SubSeq(sorted, 1, n) \o <<d>> \o SubSeq(sorted, n + 1, Len(sorted))

RECURSIVE SortByDate(_)
\* [...womackData].sort((a, b) => new Date(a.date) - new Date(b.date))
SortByDate(data) ==
    IF data = <<>> THEN <<>>
    ELSE InsertByDate(SortByDate(SubSeq(data, 1, Len(data) - 1)), data[Len(data)])

\* the row a date key gets when first seen
NewRow(dateKey) ==
    [name |-> dateKey, AguaL1 |-> 0, AguaL2 |-> 0, AceiteL1 |-> 0, AceiteL2 |-> 0]

\* the two branches on d.line
AddToRow(row, d) ==
    IF d.line = 1
      THEN [row EXCEPT !.AguaL1 = @ + d.waterConsumption,
                       !.AceiteL1 = @ + d.oilConsumptionTotal]
    ELSE IF d.line = 2
      THEN [row EXCEPT !.AguaL2 = @ + d.waterConsumption,
                       !.AceiteL2 = @ + d.oilConsumptionTotal]
    ELSE row

\* the body of the forEach; aggregatedData is kept as its values in key
\* insertion order, which is the order Object.values lists string keys in
Aggregate(rows, d) ==
    LET dateKey == DateKey(d.date)
        with == IF \E i \in 1..Len(rows) : rows[i].name = dateKey
                  THEN rows ELSE Append(rows, NewRow(dateKey))
    IN [i \in 1..Len(with) |->
          IF with[i].name = dateKey THEN AddToRow(with[i], d) ELSE with[i]]

RECURSIVE AggregateAll(_, _)
AggregateAll(rows, data) ==
    IF data = <<>> THEN rows
    ELSE AggregateAll(Aggregate(rows, Head(data)), Tail(data))

\* Array.prototype.slice(-n)
LastRows(rows, n) ==
    IF Len(rows) <= n THEN rows ELSE SubSeq(rows, Len(rows) - n + 1, Len(rows))

womackChartData(data) == LastRows(AggregateAll(<<>>, SortByDate(data)), WindowDays)

\* the test with the comparison turned round
IsEarlier(d, latest) == d.weekStartDate < latest.weekStartDate

\* the test that makes d the latest record of its line so far
IsLater(d, latest) == d.weekStartDate > latest.weekStartDate

RECURSIVE ScanLatest(_, _)
\* the forEach over bodymakerData; latestWeekData is a function from the lines
\* seen so far to their selected record
ScanLatest(latestWeekData, data) ==
    IF data = <<>> THEN latestWeekData
    ELSE LET d == Head(data)
             take == d.line \notin DOMAIN latestWeekData
                        \/ IsLater(d, latestWeekData[d.line])
             next == IF take
                       THEN [l \in DOMAIN latestWeekData \cup {d.line} |->
                               IF l = d.line THEN d ELSE latestWeekData[l]]
                       ELSE latestWeekData
         IN ScanLatest(next, Tail(data))

latestWeekData(data) == ScanLatest(<<>>, data)

\* latestWeekData[line]?.readings || []
LineReadings(latest, line) ==
    IF line \in DOMAIN latest THEN latest[line].readings ELSE <<>>

\* [...new Set([...])].sort((a, b) => a - b)
allMachines(line1Data, line2Data) ==
    SortedKeys({line1Data[i].machineId : i \in 1..Len(line1Data)}
                  \cup {line2Data[i].machineId : i \in 1..Len(line2Data)})

\* lineData.find(r => r.machineId === machineId)?.consumption || 0
ConsumptionIn(lineData, machineId) ==
    LET hits == {i \in 1..Len(lineData) : lineData[i].machineId = machineId}
    IN IF hits = {} THEN 0 ELSE lineData[Min(hits)].consumption

bodymakerChartData(data) ==
    LET latest == latestWeekData(data)
        line1Data == LineReadings(latest, 1)
        line2Data == LineReadings(latest, 2)
        ms == allMachines(line1Data, line2Data)
    IN [i \in 1..Len(ms) |->
          [name |-> ms[i],
           ConsumoL1 |-> ConsumptionIn(line1Data, ms[i]),
           ConsumoL2 |-> ConsumptionIn(line2Data, ms[i])]]

-----------------------------------------------------------------------------
(* WomackControl *)

InitialWomack ==
    [date |-> Today, line |-> 1, water |-> "", oilTotal |-> "", oilPartial |-> "",
     message |-> MsgNone, isLoading |-> FALSE]

WomackShown == Rendered /\ view = "womack"

WomackUnchangedRest ==
    /\ UNCHANGED <<wTimers, wMsgTimer, wPending, submits>>
    /\ UNCHANGED <<authVars, appVars, storeVars, bodymakerVars>>

WomackSetDate(v) ==
    /\ WomackShown
    /\ womack' = [womack EXCEPT !.date = v]
    /\ WomackUnchangedRest

WomackSetLine(v) ==
    /\ WomackShown
    /\ womack' = [womack EXCEPT !.line = v]
    /\ WomackUnchangedRest

WomackSetWater(v) ==
    /\ WomackShown
    /\ womack' = [womack EXCEPT !.water = v]
    /\ WomackUnchangedRest

WomackSetOilTotal(v) ==
    /\ WomackShown
    /\ womack' = [womack EXCEPT !.oilTotal = v]
    /\ WomackUnchangedRest

WomackSetOilPartial(v) ==
    /\ WomackShown
    /\ womack' = [womack EXCEPT !.oilPartial = v]
    /\ WomackUnchangedRest

\* the validation test with its last operand forgotten
WomackInvalidWithoutOilPartial(f) ==
    \/ f.date = EmptyDate
    \/ f.line = 0
    \/ f.water = ""
    \/ f.oilTotal = ""

\* the validation test of handleSubmit: !date || !line || !water || !oilTotal || !oilPartial
WomackInvalid(f) ==
    \/ f.date = EmptyDate
    \/ f.line = 0
    \/ f.water = ""
    \/ f.oilTotal = ""
    \/ f.oilPartial = ""

\* the document handed to addDoc (createdAt, which nothing reads, is left out)
WomackDoc(f) ==
    [date |-> f.date,
     line |-> f.line,
     waterConsumption |-> NumberOf(f.water),
     oilConsumptionTotal |-> NumberOf(f.oilTotal),
     oilConsumptionPartial |-> NumberOf(f.oilPartial)]

\* handleSubmit up to its return or to the await of addDoc.  Button drops the
\* disabled prop, so isLoading does not gate the submit.
WomackHandleSubmit ==
    /\ WomackShown
    /\ submits < MaxSubmits
    /\ submits' = submits + 1
    /\ IF WomackInvalid(womack)
         THEN /\ womack' = [womack EXCEPT !.message = MsgRequired]
              /\ wTimers' = wTimers + 1
              /\ wMsgTimer' = wTimers + 1
              /\ UNCHANGED wPending
         ELSE /\ womack' = [womack EXCEPT !.isLoading = TRUE]
              /\ wPending' = wPending (+) SetToBag({[doc |-> WomackDoc(womack), live |-> TRUE]})
              /\ UNCHANGED <<wTimers, wMsgTimer>>
    /\ UNCHANGED <<authVars, appVars, storeVars, bodymakerVars>>

\* addDoc resolves: the store holds the document; the continuation of a control
\* that is still mounted confirms, clears the numeric fields and starts its timer
WomackWriteOk(p) ==
    /\ BagIn(p, wPending)
    /\ wPending' = wPending (-) SetToBag({p})
    /\ womackStore' = Append(womackStore, p.doc)
    /\ IF p.live
         THEN /\ womack' = [womack EXCEPT !.message = MsgSaved, !.water = "",
                                          !.oilTotal = "", !.oilPartial = "",
                                          !.isLoading = FALSE]
              /\ wTimers' = wTimers + 1
              /\ wMsgTimer' = wTimers + 1
         ELSE UNCHANGED <<womack, wTimers, wMsgTimer>>
    /\ UNCHANGED <<bodymakerStore, submits>>
    /\ UNCHANGED <<authVars, appVars, bodymakerVars>>

\* addDoc rejects, with the clearing of the numeric fields done for every
\* outcome instead of for success alone
WomackWriteFailClearsFields(p) ==
    /\ BagIn(p, wPending)
    /\ wPending' = wPending (-) SetToBag({p})
    /\ IF p.live
         THEN /\ womack' = [womack EXCEPT !.message = MsgSaveError, !.water = "",
                                          !.oilTotal = "", !.oilPartial = "",
                                          !.isLoading = FALSE]
              /\ wTimers' = wTimers + 1
              /\ wMsgTimer' = wTimers + 1
         ELSE UNCHANGED <<womack, wTimers, wMsgTimer>>
    /\ UNCHANGED <<authVars, appVars, storeVars, bodymakerVars, submits>>

\* addDoc rejects: the catch block reports, the fields are kept
WomackWriteFail(p) ==
    /\ BagIn(p, wPending)
    /\ wPending' = wPending (-) SetToBag({p})
    /\ IF p.live
         THEN /\ womack' = [womack EXCEPT !.message = MsgSaveError, !.isLoading = FALSE]
              /\ wTimers' = wTimers + 1
              /\ wMsgTimer' = wTimers + 1
         ELSE UNCHANGED <<womack, wTimers, wMsgTimer>>
    /\ UNCHANGED <<authVars, appVars, storeVars, bodymakerVars, submits>>

\* the oldest setTimeout(() => setMessage(''), 3000) fires; all delays are equal,
\* so the callbacks fire in the order they were set
WomackTimerFires ==
    /\ wTimers > 0
    /\ wTimers' = wTimers - 1
    /\ womack' = [womack EXCEPT !.message = MsgNone]
    /\ wMsgTimer' = 0
    /\ UNCHANGED wPending
    /\ UNCHANGED <<authVars, appVars, storeVars, bodymakerVars, submits>>

\* onBack: the control unmounts; its state is discarded, its timers and the
\* continuations of its pending writes no longer have a component to update
WomackBack ==
    /\ WomackShown
    /\ view' = "dashboard"
    /\ womack' = InitialWomack
    /\ wTimers' = 0
    /\ wMsgTimer' = 0
    /\ wPending' = Detached(wPending)
    /\ UNCHANGED <<womackData, bodymakerData, loading, womackSub, bodymakerSub>>
    /\ UNCHANGED <<authVars, storeVars, bodymakerVars, submits>>

-----------------------------------------------------------------------------
(* BodymakerControl *)

WeekInputs == {EmptyDate, 375}
ConsumptionInputs == {"", "0", "-2", "4"}
EditOffsets == {0, 7}
\* what the user of the weekly scenario types: a reading in the first input of
\* the line, which may be cleared again, and 0 or a negative number in the last
FirstInputValues == {"", "4"}
LastInputValues == {"0", "-2"}

\* getMonday(d).toISOString().split('T')[0], in UTC; day 0 is Sunday
getMonday(d) ==
    LET day == (d - 1) % 7
    IN d - day + (IF day = 0 THEN -6 ELSE 1)

\* the machines memo
machines(line) == IF line = 1 THEN 11..18 ELSE 21..28

\* machines.reduce((acc, machineId) => ({ ...acc, [machineId]: '' }), {})
BlankConsumptions(ms) == [m \in ms |-> ""]

InitialBodymaker ==
    [week |-> getMonday(Today), line |-> 1, consumptions |-> BlankConsumptions(machines(1)),
     message |-> MsgNone, isLoading |-> FALSE]

BodymakerShown == Rendered /\ view = "bodymaker"

BodymakerUnchangedRest ==
    /\ UNCHANGED <<bTimers, bMsgTimer, bPending, submits>>
    /\ UNCHANGED <<authVars, appVars, storeVars, womackVars>>

\* onChange of the week input; getMonday('') is an Invalid Date whose
\* toISOString throws, so clearing the input leaves week as it was
BodymakerSetWeek(v) ==
    /\ BodymakerShown
    /\ bodymaker' = IF v = EmptyDate THEN bodymaker
                    ELSE [bodymaker EXCEPT !.week = getMonday(v)]
    /\ BodymakerUnchangedRest

\* consumptions if no effect reset them when the line changes
ConsumptionsKeptAcrossLines(c, v) == c

\* consumptions once the effect on [line, machines] has run for the new line v
ConsumptionsAfterLine(c, v) == BlankConsumptions(machines(v))

\* onChange of the line select together with the effect on [line, machines] it
\* triggers, which React flushes before it dispatches the next event
BodymakerSetLine(v) ==
    /\ BodymakerShown
    /\ v # bodymaker.line
    /\ bodymaker' = [bodymaker EXCEPT !.line = v,
                        !.consumptions = ConsumptionsAfterLine(bodymaker.consumptions, v)]
    /\ BodymakerUnchangedRest

\* setConsumptions(prev => ({ ...prev, [machineId]: value }))
WithConsumption(c, machineId, value) ==
    [k \in DOMAIN c \cup {machineId} |-> IF k = machineId THEN value ELSE c[k]]

\* handleConsumptionChange on one of the inputs rendered for the current line
BodymakerConsumptionChange(machineId, value) ==
    /\ BodymakerShown
    /\ machineId \in machines(bodymaker.line)
    /\ bodymaker' = [bodymaker EXCEPT
                        !.consumptions = WithConsumption(bodymaker.consumptions, machineId, value)]
    /\ BodymakerUnchangedRest

\* the filter written as r.consumption !== 0
KeepsNonZeroReading(r) == r.consumption # 0

\* the filter of handleSubmit
KeepsReading(r) == r.consumption > 0

\* the map of handleSubmit without its filter
ReadingsUnfiltered(c) ==
    LET keys == SortedKeys(DOMAIN c)
    IN [i \in 1..Len(keys) |->
          [machineId |-> keys[i], consumption |-> NumberOf(c[keys[i]])]]

\* Object.entries(consumptions).map(...).filter(r => r.consumption > 0)
ReadingsOf(c) ==
    LET keys == SortedKeys(DOMAIN c)
        mapped == [i \in 1..Len(keys) |->
                     [machineId |-> keys[i], consumption |-> NumberOf(c[keys[i]])]]
    IN SelectSeq(mapped, KeepsReading)

\* the rejection test of handleSubmit: !week || readings.length === 0
BodymakerInvalid(f, readings) == f.week = EmptyDate \/ Len(readings) = 0

\* the document handed to addDoc (createdAt, which nothing reads, is left out)
BodymakerDoc(f, readings) ==
    [weekStartDate |-> f.week, line |-> f.line, readings |-> readings]

BodymakerHandleSubmit ==
    /\ BodymakerShown
    /\ submits < MaxSubmits
    /\ submits' = submits + 1
    /\ LET readings == ReadingsOf(bodymaker.consumptions)
       IN IF BodymakerInvalid(bodymaker, readings)
            THEN /\ bodymaker' = [bodymaker EXCEPT !.message = MsgWeekRequired]
                 /\ bTimers' = bTimers + 1
                 /\ bMsgTimer' = bTimers + 1
                 /\ UNCHANGED bPending
            ELSE /\ bodymaker' = [bodymaker EXCEPT !.isLoading = TRUE]
                 /\ bPending' = bPending (+)
                       SetToBag({[doc |-> BodymakerDoc(bodymaker, readings), live |-> TRUE]})
                 /\ UNCHANGED <<bTimers, bMsgTimer>>
    /\ UNCHANGED <<authVars, appVars, storeVars, womackVars>>

\* addDoc resolves; the continuation resets consumptions from the machines of
\* the render that submitted (the line of the written document)
BodymakerWriteOk(p) ==
    /\ BagIn(p, bPending)
    /\ bPending' = bPending (-) SetToBag({p})
    /\ bodymakerStore' = Append(bodymakerStore, p.doc)
    /\ IF p.live
         THEN /\ bodymaker' = [bodymaker EXCEPT !.message = MsgWeekSaved,
                                  !.consumptions = BlankConsumptions(machines(p.doc.line)),
                                  !.isLoading = FALSE]
              /\ bTimers' = bTimers + 1
              /\ bMsgTimer' = bTimers + 1
         ELSE UNCHANGED <<bodymaker, bTimers, bMsgTimer>>
    /\ UNCHANGED <<womackStore, submits>>
    /\ UNCHANGED <<authVars, appVars, womackVars>>

BodymakerWriteFail(p) ==
    /\ BagIn(p, bPending)
    /\ bPending' = bPending (-) SetToBag({p})
    /\ IF p.live
         THEN /\ bodymaker' = [bodymaker EXCEPT !.message = MsgSaveError, !.isLoading = FALSE]
              /\ bTimers' = bTimers + 1
              /\ bMsgTimer' = bTimers + 1
         ELSE UNCHANGED <<bodymaker, bTimers, bMsgTimer>>
    /\ UNCHANGED <<authVars, appVars, storeVars, womackVars, submits>>

BodymakerTimerFires ==
    /\ bTimers > 0
    /\ bTimers' = bTimers - 1
    /\ bodymaker' = [bodymaker EXCEPT !.message = MsgNone]
    /\ bMsgTimer' = 0
    /\ UNCHANGED bPending
    /\ UNCHANGED <<authVars, appVars, storeVars, womackVars, submits>>

BodymakerBack ==
    /\ BodymakerShown
    /\ view' = "dashboard"
    /\ bodymaker' = InitialBodymaker
    /\ bTimers' = 0
    /\ bMsgTimer' = 0
    /\ bPending' = Detached(bPending)
    /\ UNCHANGED <<womackData, bodymakerData, loading, womackSub, bodymakerSub>>
    /\ UNCHANGED <<authVars, storeVars, womackVars, submits>>

-----
(* The application *)

Init ==
    /\ firebaseConfig \in BOOLEAN
    /\ initialAuthToken \in BOOLEAN
    /\ currentUser \in {"none", "existing"}
    /\ observer = "unregistered"
    /\ signIn = "idle"
    /\ tokenFailed = FALSE
    /\ losses = 0
    /\ db = FALSE
    /\ user = "none"
    /\ isAuthReady = FALSE
    /\ view = "dashboard"
    /\ womackData = <<>>
    /\ bodymakerData = <<>>
    /\ loading = TRUE
    /\ womackSub = FALSE
    /\ bodymakerSub = FALSE
    /\ womackStore = <<>>
    /\ bodymakerStore = <<>>
    /\ womack = InitialWomack
    /\ wTimers = 0
    /\ wMsgTimer = 0
    /\ wPending = EmptyBag
    /\ bodymaker = InitialBodymaker
    /\ bTimers = 0
    /\ bMsgTimer = 0
    /\ bPending = EmptyBag
    /\ submits = 0

\* The whole application
Next ==
    \/ AuthMountEffect
    \/ AuthStateChanged
    \/ SignInTokenOk
    \/ SignInTokenFail
    \/ SignInAnonOk
    \/ SignInAnonFail
    \/ SessionLost
    \/ SubscriptionEffects
    \/ OnWomackSnapshot
    \/ OnWomackError
    \/ OnBodymakerSnapshot
    \/ OnBodymakerError
    \/ \E doc \in DailyDocs : StoreAddsDaily(doc)
    \/ \E doc \in WeeklyDocs : StoreAddsWeekly(doc)
    \/ \E v \in {"womack", "bodymaker"} : Navigate(v)
    \/ \E v \in DateInputs : WomackSetDate(v)
    \/ \E v \in Lines : WomackSetLine(v)
    \/ \E v \in WaterInputs : WomackSetWater(v)
    \/ \E v \in OilTotalInputs : WomackSetOilTotal(v)
    \/ \E v \in OilPartialInputs : WomackSetOilPartial(v)
    \/ WomackHandleSubmit
    \/ \E p \in BagToSet(wPending) : WomackWriteOk(p)
    \/ \E p \in BagToSet(wPending) : WomackWriteFail(p)
    \/ WomackTimerFires
    \/ WomackBack
    \/ \E v \in WeekInputs : BodymakerSetWeek(v)
    \/ \E v \in Lines : BodymakerSetLine(v)
    \/ \E o \in EditOffsets, v \in ConsumptionInputs :
          BodymakerConsumptionChange(Min(machines(bodymaker.line)) + o, v)
    \/ BodymakerHandleSubmit
    \/ \E p \in BagToSet(bPending) : BodymakerWriteOk(p)
    \/ \E p \in BagToSet(bPending) : BodymakerWriteFail(p)
    \/ BodymakerTimerFires
    \/ BodymakerBack

Spec == Init /\ [][Next]_vars

\* Identity bootstrap and collection sync under every configuration, with a
\* user who fills each form with one valid value per field and submits it.
\* Every step of it is a step of Next.
NextIdentity ==
    \/ AuthMountEffect
    \/ AuthStateChanged
    \/ SignInTokenOk
    \/ SignInTokenFail
    \/ SignInAnonOk
    \/ SignInAnonFail
    \/ SessionLost
    \/ SubscriptionEffects
    \/ OnWomackSnapshot
    \/ OnWomackError
    \/ OnBodymakerSnapshot
    \/ \E v \in {"womack", "bodymaker"} : Navigate(v)
    \/ \E v \in ValidWaterInputs : WomackSetWater(v)
    \/ \E v \in ValidOilTotalInputs : WomackSetOilTotal(v)
    \/ \E v \in ValidOilPartialInputs : WomackSetOilPartial(v)
    \/ WomackHandleSubmit
    \/ \E p \in BagToSet(wPending) : WomackWriteOk(p)
    \/ \E p \in BagToSet(wPending) : WomackWriteFail(p)
    \/ WomackTimerFires
    \/ WomackBack
    \/ \E v \in ValidConsumptionInputs :
          BodymakerConsumptionChange(Min(machines(bodymaker.line)), v)
    \/ BodymakerHandleSubmit
    \/ \E p \in BagToSet(bPending) : BodymakerWriteOk(p)
    \/ \E p \in BagToSet(bPending) : BodymakerWriteFail(p)
    \/ BodymakerTimerFires
    \/ BodymakerBack

SpecIdentity == Init /\ [][NextIdentity]_vars

\* A returning user: configuration present, a session already established
InitReturning ==
    /\ Init
    /\ firebaseConfig
    /\ ~initialAuthToken
    /\ currentUser = "existing"

\* The daily-entry screen used by a returning user
NextWomack ==
    \/ AuthMountEffect
    \/ AuthStateChanged
    \/ SubscriptionEffects
    \/ OnWomackSnapshot
    \/ OnWomackError
    \/ OnBodymakerSnapshot
    \/ Navigate("womack")
    \/ \E v \in DateInputs : WomackSetDate(v)
    \/ \E v \in Lines : WomackSetLine(v)
    \/ \E v \in WaterInputs : WomackSetWater(v)
    \/ \E v \in OilTotalInputs : WomackSetOilTotal(v)
    \/ \E v \in OilPartialInputs : WomackSetOilPartial(v)
    \/ WomackHandleSubmit
    \/ \E p \in BagToSet(wPending) : WomackWriteOk(p)
    \/ \E p \in BagToSet(wPending) : WomackWriteFail(p)
    \/ WomackTimerFires
    \/ WomackBack

SpecWomack == InitReturning /\ [][NextWomack]_vars

\* The weekly-entry screen used by a returning user
NextBodymaker ==
    \/ AuthMountEffect
    \/ AuthStateChanged
    \/ SubscriptionEffects
    \/ OnWomackSnapshot
    \/ OnWomackError
    \/ OnBodymakerSnapshot
    \/ Navigate("bodymaker")
    \/ \E v \in WeekInputs : BodymakerSetWeek(v)
    \/ \E v \in Lines : BodymakerSetLine(v)
    \/ \E v \in FirstInputValues :
          BodymakerConsumptionChange(Min(machines(bodymaker.line)), v)
    \/ \E v \in LastInputValues :
          BodymakerConsumptionChange(Min(machines(bodymaker.line)) + 7, v)
    \/ BodymakerHandleSubmit
    \/ \E p \in BagToSet(bPending) : BodymakerWriteOk(p)
    \/ \E p \in BagToSet(bPending) : BodymakerWriteFail(p)
    \/ BodymakerTimerFires
    \/ BodymakerBack

SpecBodymaker == InitReturning /\ [][NextBodymaker]_vars

\* The application once a returning user's session is ready and both
\* listeners are registered, before the first snapshot
Ready ==
    /\ firebaseConfig = TRUE /\ initialAuthToken = FALSE
    /\ currentUser = "existing" /\ observer = "idle" /\ signIn = "idle"
    /\ tokenFailed = FALSE /\ losses = 0
    /\ db = TRUE /\ user = "existing" /\ isAuthReady = TRUE
    /\ view = "dashboard" /\ womackData = <<>> /\ bodymakerData = <<>> /\ loading = TRUE
    /\ womackSub = TRUE /\ bodymakerSub = TRUE
    /\ womack = InitialWomack /\ wTimers = 0 /\ wMsgTimer = 0 /\ wPending = EmptyBag
    /\ bodymaker = InitialBodymaker /\ bTimers = 0 /\ bMsgTimer = 0 /\ bPending = EmptyBag
    /\ submits = 0

\* The dashboard's daily aggregate over a collection that holds the first six
\* days of January 2024 and to which other clients add documents
InitDaily ==
    /\ Ready
    /\ womackStore = BaseWeek
    /\ bodymakerStore = <<>>

NextDaily ==
    \/ \E doc \in DailyDocs : StoreAddsDaily(doc)
    \/ OnWomackSnapshot

SpecDaily == InitDaily /\ [][NextDaily]_vars

\* The dashboard's weekly comparison over a collection other clients fill
InitWeekly ==
    /\ Ready
    /\ womackStore = <<>>
    /\ bodymakerStore = <<>>

NextWeekly ==
    \/ \E doc \in WeeklyDocs : StoreAddsWeekly(doc)
    \/ OnBodymakerSnapshot

SpecWeekly == InitWeekly /\ [][NextWeekly]_vars

\* what other clients add in the listener scenario
SyncDailyDocs == {DailyDoc(372, 1, 1), DailyDoc(372, 2, 2)}
SyncWeeklyDocs ==
    {[weekStartDate |-> 366, line |-> 1,
      readings |-> <<[machineId |-> 11, consumption |-> 5]>>],
     [weekStartDate |-> 373, line |-> 2,
      readings |-> <<[machineId |-> 21, consumption |-> 4]>>]}

\* Both listeners, delivering or failing, over collections other clients fill;
\* the daily collection is populated when the listeners are registered
NextSync ==
    \/ \E doc \in SyncDailyDocs : StoreAddsDaily(doc)
    \/ \E doc \in SyncWeeklyDocs : StoreAddsWeekly(doc)
    \/ OnWomackSnapshot
    \/ OnWomackError
    \/ OnBodymakerSnapshot
    \/ OnBodymakerError

SpecSync == InitDaily /\ [][NextSync]_vars

-----------------------------------------------------------------------------
(* Claims *)

\* a handleSubmit call of the control on screen is the step that counts it
DailySubmitStep == submits' # submits /\ view = "womack"
WeeklySubmitStep == submits' # submits /\ view = "bodymaker"

AnyDailyFieldEmpty ==
    \/ womack.date = EmptyDate
    \/ womack.line \notin Lines
    \/ womack.water = ""
    \/ womack.oilTotal = ""
    \/ womack.oilPartial = ""

\* C1: a daily submit with any of date, line, water, oilTotal, oilPartial
\* empty issues no write, leaves the daily collection unchanged and sets the
\* validation-failure message.
C1_EmptyFieldRejected ==
    [][(DailySubmitStep /\ AnyDailyFieldEmpty)
          => /\ wPending' = wPending
             /\ womackStore' = womackStore
             /\ womack'.message = MsgRequired]_vars

\* a rejected daily submit whose only empty field is oilPartial
C1_Witness ==
    /\ view = "womack"
    /\ womack.date # EmptyDate /\ womack.water # "" /\ womack.oilTotal # ""
    /\ womack.oilPartial = ""
    /\ womack.message = MsgRequired
    /\ wMsgTimer > 0
    /\ wPending = EmptyBag /\ womackStore = <<>>

NothingPositive(c) == \A k \in DOMAIN c : c[k] = "" \/ NumberOf(c[k]) <= 0

\* C2: a weekly submit with weekStartDate missing, or with every machine's
\* input blank, 0 or otherwise <= 0, issues no write, leaves the weekly
\* collection unchanged and sets the validation-failure message.
C2_NothingToSaveRejected ==
    [][(WeeklySubmitStep
          /\ (bodymaker.week = EmptyDate \/ NothingPositive(bodymaker.consumptions)))
          => /\ bPending' = bPending
             /\ bodymakerStore' = bodymakerStore
             /\ bodymaker'.message = MsgWeekRequired]_vars

\* a rejected weekly submit whose only typed value is negative
C2_Witness ==
    /\ view = "bodymaker"
    /\ \E k \in DOMAIN bodymaker.consumptions : bodymaker.consumptions[k] = "-2"
    /\ NothingPositive(bodymaker.consumptions)
    /\ bodymaker.message = MsgWeekRequired
    /\ bMsgTimer > 0
    /\ bPending = EmptyBag /\ bodymakerStore = <<>>

PositiveEntries(c) == {k \in DOMAIN c : NumberOf(c[k]) > 0}

ExactlyThePositive(readings, c) ==
    /\ Len(readings) = Cardinality(PositiveEntries(c))
    /\ \A i \in 1..Len(readings) : readings[i].machineId \in PositiveEntries(c)
    /\ \A k \in PositiveEntries(c) :
          \E i \in 1..Len(readings) :
             readings[i] = [machineId |-> k, consumption |-> NumberOf(c[k])]

\* C3: an accepted weekly submit issues exactly one write, whose readings are
\* exactly the form entries with a value > 0, each as {machineId, consumption};
\* and the collection only ever grows by one such written document at a time.
C3_ExactReadingsWritten ==
    [][/\ (WeeklySubmitStep /\ bodymaker.week # EmptyDate
              /\ PositiveEntries(bodymaker.consumptions) # {})
          => \E p \in BagToSet(bPending') :
                /\ bPending' = bPending (+) SetToBag({p})
                /\ p.doc.weekStartDate = bodymaker.week
                /\ p.doc.line = bodymaker.line
                /\ ExactlyThePositive(p.doc.readings, bodymaker.consumptions)
       /\ bodymakerStore' # bodymakerStore
          => \E p \in BagToSet(bPending) :
                /\ bodymakerStore' = Append(bodymakerStore, p.doc)
                /\ bPending' = bPending (-) SetToBag({p})]_vars

\* a write pending for a form that holds one reading, one blank input and one
\* negative value: the document carries the reading alone
C3_Witness ==
    /\ view = "bodymaker"
    /\ \E k \in DOMAIN bodymaker.consumptions : bodymaker.consumptions[k] = ""
    /\ \E k \in DOMAIN bodymaker.consumptions : bodymaker.consumptions[k] = "-2"
    /\ \E p \in BagToSet(bPending) :
          /\ p.live
          /\ Len(p.doc.readings) = 1
          /\ bodymaker.consumptions[p.doc.readings[1].machineId] = "4"
          /\ p.doc.readings[1].consumption = 4

WrittenWeekly ==
    {bodymakerStore[i] : i \in 1..Len(bodymakerStore)} \cup {p.doc : p \in BagToSet(bPending)}

\* C4: every WeeklyReading the application writes has readings whose machine
\* IDs all belong to its own line: 11..18 for line 1, 21..28 for line 2.
C4_MachinesOfOwnLine ==
    \A doc \in WrittenWeekly :
       \A i \in 1..Len(doc.readings) :
          /\ doc.line = 1 => doc.readings[i].machineId \in 11..18
          /\ doc.line = 2 => doc.readings[i].machineId \in 21..28

\* a line 2 document written while consumptions holds the keys of line 1,
\* after a line 1 document was written
C4_Witness ==
    /\ \E i \in 1..Len(bodymakerStore) : bodymakerStore[i].line = 1
    /\ \E p \in BagToSet(bPending) : p.doc.line = 2
    /\ bodymaker.line = 2
    /\ 11 \in DOMAIN bodymaker.consumptions

\* C5: whenever readiness is signalled a session exists, obtained by reusing
\* the existing one, else by exchanging the supplied token, else (no token, or
\* the exchange failed) anonymously.
C5_ReadyOnlyWithSession ==
    isAuthReady =>
       /\ currentUser # "none"
       /\ currentUser = "token" => initialAuthToken
       /\ currentUser = "anon" => (~initialAuthToken \/ tokenFailed)

\* C6: neither listener is registered and no write is issued before
\* isAuthReady is signalled and the store handle exists.
C6_NoStoreOperationBeforeReady ==
    (\/ womackSub \/ bodymakerSub
     \/ submits > 0
     \/ wPending # EmptyBag \/ bPending # EmptyBag
     \/ womackStore # <<>> \/ bodymakerStore # <<>>)
       => (isAuthReady /\ db)

\* both listeners registered, a daily document written, a weekly write pending
C6_Witness ==
    /\ womackSub /\ bodymakerSub
    /\ womackStore # <<>>
    /\ bPending # EmptyBag

DistinctDates(data) == {data[i].date : i \in 1..Len(data)}

LatestDates(data, n) ==
    LET all == SortedKeys(DistinctDates(data))
    IN SubSeq(all, Len(all) - n + 1, Len(all))

\* C7: when the daily records span more than 7 distinct dates, the aggregate
\* has exactly 7 rows, those of the 7 latest distinct dates, in ascending order.
C7_SevenLatestDates ==
    Cardinality(DistinctDates(womackData)) > 7 =>
       LET rows == womackChartData(womackData)
           latest == LatestDates(womackData, 7)
       IN /\ Len(rows) = 7
          /\ \A i \in 1..7 : rows[i].name = DateKey(latest[i])

RECURSIVE WaterOf(_, _, _)
WaterOf(data, date, line) ==
    IF data = <<>> THEN 0
    ELSE (IF Head(data).date = date /\ Head(data).line = line
            THEN Head(data).waterConsumption ELSE 0)
         + WaterOf(Tail(data), date, line)

\* C8: in every row of the aggregate, the water value of each line is the sum
\* of waterConsumption over exactly the records of that row's date and line.
C8_WaterSumsPerDateAndLine ==
    LET rows == womackChartData(womackData)
    IN \A i \in 1..Len(rows) :
          \A date \in DistinctDates(womackData) :
             DateKey(date) = rows[i].name
                => /\ rows[i].AguaL1 = WaterOf(womackData, date, 1)
                   /\ rows[i].AguaL2 = WaterOf(womackData, date, 2)

RecordsOfLine(data, line) == {i \in 1..Len(data) : data[i].line = line}

MachineIds(readings) == {readings[i].machineId : i \in 1..Len(readings)}

\* C9: the record selected for each line has the maximum weekStartDate of that
\* line's records; the rows are the union of the two selected records' machine
\* IDs, ascending and without duplicates; each row carries the machine's
\* consumption in each line's selected record, or 0 where it is absent.
C9_LatestPerLineComparison ==
    LET data == bodymakerData
        latest == latestWeekData(data)
        rows == bodymakerChartData(data)
        readingsOf(line) == IF line \in DOMAIN latest THEN latest[line].readings ELSE <<>>
        ids == MachineIds(readingsOf(1)) \cup MachineIds(readingsOf(2))
        carried(line, id) ==
           IF id \in MachineIds(readingsOf(line))
             THEN {readingsOf(line)[i].consumption :
                     i \in {j \in 1..Len(readingsOf(line)) : readingsOf(line)[j].machineId = id}}
             ELSE {0}
    IN /\ \A line \in Lines :
             /\ line \in DOMAIN latest <=> RecordsOfLine(data, line) # {}
             /\ line \in DOMAIN latest =>
                   /\ \E i \in RecordsOfLine(data, line) : data[i] = latest[line]
                   /\ \A i \in RecordsOfLine(data, line) :
                         data[i].weekStartDate <= latest[line].weekStartDate
       /\ {rows[i].name : i \in 1..Len(rows)} = ids
       /\ Len(rows) = Cardinality(ids)
       /\ \A i \in 1..Len(rows) - 1 : rows[i].name < rows[i + 1].name
       /\ \A i \in 1..Len(rows) :
             /\ carried(1, rows[i].name) = {rows[i].ConsumoL1}
             /\ carried(2, rows[i].name) = {rows[i].ConsumoL2}

\* line 1 has its newer week first and its older week after it, line 2 has a
\* record too, and each line's selected record has a machine the other lacks
C9_Witness ==
    LET rows == bodymakerChartData(bodymakerData)
    IN /\ \E i, j \in RecordsOfLine(bodymakerData, 1) :
             i < j /\ bodymakerData[i].weekStartDate > bodymakerData[j].weekStartDate
       /\ RecordsOfLine(bodymakerData, 2) # {}
       /\ \E i \in 1..Len(rows) : rows[i].ConsumoL1 > 0 /\ rows[i].ConsumoL2 = 0
       /\ \E i \in 1..Len(rows) : rows[i].ConsumoL1 = 0 /\ rows[i].ConsumoL2 > 0

\* C10: the confirmation of a successful daily submit is cleared only by the
\* timer that submit started, not by an earlier one.
C10_ConfirmationOutlivesOlderTimers ==
    [][(view = "womack" /\ view' = "womack"
          /\ womack.message = MsgSaved /\ womack'.message = MsgNone)
          => wMsgTimer = 1]_vars

\* the continuation of a rejected addDoc runs in a control that is still mounted
DailyWriteRejected ==
    /\ view = "womack"
    /\ womackStore' = womackStore
    /\ \E p \in BagToSet(wPending) : p.live /\ wPending' = wPending (-) SetToBag({p})

WeeklyWriteRejected ==
    /\ view = "bodymaker"
    /\ bodymakerStore' = bodymakerStore
    /\ \E p \in BagToSet(bPending) : p.live /\ bPending' = bPending (-) SetToBag({p})

\* the continuation of a resolved addDoc runs in a control that is still mounted
DailyWriteResolved ==
    /\ view = "womack"
    /\ \E p \in BagToSet(wPending) :
          /\ p.live
          /\ wPending' = wPending (-) SetToBag({p})
          /\ womackStore' = Append(womackStore, p.doc)

WeeklyWriteResolved ==
    /\ view = "bodymaker"
    /\ \E p \in BagToSet(bPending) :
          /\ p.live
          /\ bPending' = bPending (-) SetToBag({p})
          /\ bodymakerStore' = Append(bodymakerStore, p.doc)

SessionKnownLost == currentUser = "none" /\ observer = "idle"

\* C12: when the identity provider reports that no session exists while the
\* collection listeners are registered, both listeners are deregistered.
C12_NoListenerWithoutSession ==
    [][(SessionKnownLost' /\ (womackSub \/ bodymakerSub))
          => (~womackSub' /\ ~bodymakerSub')]_vars

\* positions of the records of a line that carry its maximum weekStartDate
LatestOfLine(data, line) ==
    {i \in RecordsOfLine(data, line) :
        \A j \in RecordsOfLine(data, line) :
           data[j].weekStartDate <= data[i].weekStartDate}

Max(S) == CHOOSE x \in S : \A y \in S : y <= x

\* C13: when several records of a line share its maximum weekStartDate, the
\* record selected for that line is the last of them in snapshot order.
C13_LastSeenWinsTie ==
    \A line \in Lines :
       RecordsOfLine(bodymakerData, line) # {} =>
          latestWeekData(bodymakerData)[line]
             = bodymakerData[Max(LatestOfLine(bodymakerData, line))]

\* C14: a listener error leaves both in-memory snapshots exactly as they
\* were: no step clears or partially changes a snapshot; a snapshot only ever
\* changes by being replaced wholesale with the collection delivered, and the
\* step that only ends the loading state (the error callback) changes neither.
C14_SnapshotKeptOnError ==
    [][/\ womackData' = womackData \/ womackData' = womackStore
       /\ bodymakerData' = bodymakerData \/ bodymakerData' = bodymakerStore
       /\ (womackData' # womackData) => (bodymakerData' = bodymakerData)
       /\ (bodymakerData' # bodymakerData) => (womackData' = womackData)
       /\ (loading /\ ~loading' /\ womackData' # womackStore)
             => (womackData' = womackData /\ bodymakerData' = bodymakerData)]_vars

\* the womack listener has failed before any delivery (loading is over, the
\* populated collection was never delivered) after the bodymaker listener had
\* delivered: the bodymaker snapshot is still there
C14_Witness ==
    /\ ~loading
    /\ womackStore # <<>> /\ womackData = <<>>
    /\ bodymakerData # <<>>

\* C15: while a daily submission's write is pending (isLoading is true), a
\* further submit of the form issues no second write.
C15_SingleWriteInFlight ==
    [][(DailySubmitStep /\ womack.isLoading) => wPending' = wPending]_vars

====
